---- MODULE Spec2Model ----
(***************************************************************************)
(* The relationship-preserving table sampler of                            *)
(* src/db_scripts/db_extract_tables.py as a state machine:                 *)
(*   sqlite_to_connected_json_files  (the per-database run), which calls   *)
(*   extract_related_samples         (root sampling, BFS over the foreign  *)
(*                                    keys, unreached tables).             *)
(*   process_dataset_folder          (the batch: one run per database     *)
(*                                    file, under BatchSpec).              *)
(* A database is a value chosen in Init: its tables in sqlite_master       *)
(* order, the rows of each table, its declared foreign keys and the tables *)
(* whose statements the engine rejects.  A sample is a bag of row ids of   *)
(* the source table (a row drawn twice counts twice).  ORDER BY RANDOM()   *)
(* and random.sample are nondeterministic choices.                         *)
(***************************************************************************)
EXTENDS Integers, Sequences, FiniteSets, Bags, TLC

VARIABLES
    db,               \* the database file: [tables, rows, fks, bad]
    max_rows,         \* the caller's cap
    entry,            \* "files": sqlite_to_connected_json_files; "samples": extract_related_samples called directly
    pc,               \* position in the run
    conn,             \* "none" | "open" | "closed"
    tables,           \* sqlite_to_connected_json_files: every sqlite_master table
    relationships,    \* the relationship list handed to extract_related_samples
    all_tables,       \* extract_related_samples: user tables
    relationship_map, \* [keys: insertion order, edges: table -> list of edges]
    start_table,
    processed,        \* table -> [sampled, method, related_to]
    tables_data,      \* [keys: insertion order, val: table -> document]
    queue,
    seen_edges,
    current_table,    \* the table popped last ("" before the first pop)
    rel_idx,          \* edges of current_table already enumerated
    idx,              \* tables already handled by the running per-table loop
    files,            \* output directory: file name -> document written last
    writes,           \* file name -> number of completed writes
    faults,           \* file-write failures that have happened
    enqueued,         \* history: tables ever put on the queue, in order
    passed,           \* history: edge keys that passed the seen-edge check, in order
    pending           \* process_dataset_folder: database files after the current one

vars == <<db, max_rows, entry, pc, conn, tables, relationships, all_tables,
          relationship_map, start_table, processed, tables_data, queue,
          seen_edges, current_table, rel_idx, idx, files, writes, faults,
          enqueued, passed, pending>>

-----------------------------------------------------------------------------
(* Bounds of the model *)

\* largest max_rows tried
MaxRowsCap == 2
\* most rows a table of the row-content family holds
MaxTableRows == 3
\* file-write failures injected in one run
MaxFaults == 1
\* database files in one batch of process_dataset_folder
BatchSize == 2

-----------------------------------------------------------------------------
(* Values, rows and tables *)

\* SQL NULL / Python None as a column value
NULL == 0

\* startswith('sqlite_')
IsInternal(t) == t \in {"sqlite_sequence", "sqlite_stat1"}

\* PRAGMA table_info: column names of table t; a rejected statement yields []
get_table_columns(t) ==
    IF t \in db.bad \/ t \notin DOMAIN db.rows THEN <<>>
    ELSE IF IsInternal(t) THEN <<"name", "seq">>
    ELSE <<"id", "ref">>

\* columns flagged pk = 1 by PRAGMA table_info (table C declares none)
PkFlagged(t) == IF t \in {"A", "B"} THEN <<"id">> ELSE <<>>

get_primary_keys(t) ==
    LET columns == get_table_columns(t) IN
    IF columns = <<>> THEN <<>>
    ELSE IF PkFlagged(t) # <<>> THEN PkFlagged(t)
    ELSE <<columns[1]>>

\* column_indices.get(col, -1): 0-based position of col, -1 when absent
ColumnIndex(columns, col) ==
    IF \E i \in 1..Len(columns) : columns[i] = col
    THEN (CHOOSE i \in 1..Len(columns) : columns[i] = col) - 1
    ELSE -1

RowIds(t) == 1..Len(db.rows[t])

\* value of row rid of table t at 0-based column index i
Cell(t, rid, i) == db.rows[t][rid][i + 1]

\* whether "... FROM t" raises sqlite3.Error
QueryFails(t) == t \in db.bad \/ t \notin DOMAIN db.rows

\* SELECT COUNT(*) FROM t
CountRows(t) == Len(db.rows[t])

Min(a, b) == IF a <= b THEN a ELSE b

SubsetsOfSize(S, k) == {X \in SUBSET S : Cardinality(X) = k}

\* mutant: the LIMIT clause is missing
RandomNoLimit(cand, n) == {cand}

\* ORDER BY RANDOM() LIMIT n over the rows in cand: every possible result
RandomLimit(cand, n) == SubsetsOfSize(cand, Min(n, Cardinality(cand)))

\* SELECT * FROM t WHERE col IN (values): matching row ids
SelectIn(t, col, values) ==
    {rid \in RowIds(t) :
        Cell(t, rid, ColumnIndex(get_table_columns(t), col)) \in values}

\* SELECT * FROM t WHERE pk NOT IN (existing): NULL NOT IN (...) is not true
SelectNotIn(t, pk, existing) ==
    {rid \in RowIds(t) :
        LET v == Cell(t, rid, ColumnIndex(get_table_columns(t), pk))
        IN v # NULL /\ v \notin existing}

-----------------------------------------------------------------------------
(* Ordered dictionaries (Python dict: insertion order, assignment keeps place) *)

EmptyDict == [keys |-> <<>>, val |-> <<>>]

Has(d, k) == \E i \in 1..Len(d.keys) : d.keys[i] = k

Get(d, k) == d.val[CHOOSE i \in 1..Len(d.keys) : d.keys[i] = k]

Put(d, k, v) ==
    IF Has(d, k)
    THEN [d EXCEPT !.val[CHOOSE i \in 1..Len(d.keys) : d.keys[i] = k] = v]
    ELSE [keys |-> Append(d.keys, k), val |-> Append(d.val, v)]

KeySet(d) == {d.keys[i] : i \in 1..Len(d.keys)}

-----------------------------------------------------------------------------
(* Schema introspection *)

\* get_foreign_key_relationships: the declared foreign keys of every table
\* whose PRAGMA foreign_key_list succeeds
RECURSIVE ForeignKeysOf(_)
ForeignKeysOf(ts) ==
    IF ts = <<>> THEN <<>>
    ELSE (IF Head(ts) \in db.bad \/ Head(ts) \notin DOMAIN db.fks
          THEN <<>> ELSE db.fks[Head(ts)])
         \o ForeignKeysOf(Tail(ts))

get_foreign_key_relationships == ForeignKeysOf(db.tables)

\* [t[0] for t in sqlite_master]
MasterTables == db.tables

\* user tables: sqlite_master names not starting with sqlite_
UserTables == SelectSeq(db.tables, LAMBDA t : ~IsInternal(t))

SeqToSet(s) == {s[i] : i \in 1..Len(s)}

-----------------------------------------------------------------------------
(* build_bidirectional_relationship_map *)

\* the validity test: all four fields truthy ("" stands for None or '')
ValidRel(rel) ==
    rel.table # "" /\ rel.ref_table # "" /\ rel.from_col # "" /\ rel.to_col # ""

\* rel_map[t].append(e) on a defaultdict(list)
AppendEdge(m, t, e) ==
    IF Has(m, t) THEN Put(m, t, Append(Get(m, t), e)) ELSE Put(m, t, <<e>>)

OutgoingEdge(rel) ==
    [related_table |-> rel.ref_table, local_column |-> rel.from_col,
     remote_column |-> rel.to_col, direction |-> "outgoing"]

\* mutant: the reverse edge keeps the columns of the forward edge
IncomingEdgeUnswapped(rel) ==
    [related_table |-> rel.table, local_column |-> rel.from_col,
     remote_column |-> rel.to_col, direction |-> "incoming"]

IncomingEdge(rel) ==
    [related_table |-> rel.table, local_column |-> rel.to_col,
     remote_column |-> rel.from_col, direction |-> "incoming"]

RECURSIVE BuildMap(_, _)
BuildMap(rels, m) ==
    IF rels = <<>> THEN m
    ELSE LET rel == Head(rels) IN
         IF ValidRel(rel)
         THEN BuildMap(Tail(rels),
                       AppendEdge(AppendEdge(m, rel.table, OutgoingEdge(rel)),
                                  rel.ref_table, IncomingEdge(rel)))
         ELSE BuildMap(Tail(rels), m)

build_bidirectional_relationship_map(rels) == BuildMap(rels, EmptyDict)

\* relationship_map.get(t, [])
EdgesOf(m, t) == IF Has(m, t) THEN Get(m, t) ELSE <<>>

\* mutant: among the keys with the longest edge list, the last one
MaxKeyLast(m) ==
    LET best == CHOOSE i \in 1..Len(m.keys) :
                   /\ \A j \in 1..Len(m.keys) : Len(m.val[j]) <= Len(m.val[i])
                   /\ \A j \in (i + 1)..Len(m.keys) : Len(m.val[j]) < Len(m.val[i])
    IN m.keys[best]

\* max(relationship_map.keys(), key=len of the edge list): the first key, in
\* insertion order, whose edge list is longest
MaxKey(m) ==
    LET best == CHOOSE i \in 1..Len(m.keys) :
                   /\ \A j \in 1..Len(m.keys) : Len(m.val[j]) <= Len(m.val[i])
                   /\ \A j \in 1..(i - 1) : Len(m.val[j]) < Len(m.val[i])
    IN m.keys[best]

-----------------------------------------------------------------------------
(* extract_related_samples *)

\* a table document of tables_data
Doc(t, data, total, method) ==
    [columns |-> get_table_columns(t),
     data |-> data,
     row_count |-> BagCardinality(data),
     total_rows |-> total,
     sampled |-> total > BagCardinality(data),
     sampling_method |-> method]

\* mutant: tables start out marked sampled
UnprocessedSampled == [sampled |-> TRUE, method |-> "None", related_to |-> <<>>]

Unprocessed == [sampled |-> FALSE, method |-> "None", related_to |-> <<>>]

\* the locals of extract_related_samples before it runs, or after its frame
\* is discarded by an exception
NoFrame ==
    /\ all_tables' = <<>>
    /\ relationship_map' = EmptyDict
    /\ start_table' = ""
    /\ processed' = <<>>
    /\ tables_data' = EmptyDict
    /\ queue' = <<>>
    /\ seen_edges' = {}
    /\ current_table' = ""
    /\ rel_idx' = 0
    /\ enqueued' = <<>>
    /\ passed' = <<>>

\* an exception leaves extract_related_samples: the except clause of
\* sqlite_to_connected_json_files starts the basic extraction; a direct
\* caller receives the exception
ExtractRaises ==
    /\ NoFrame
    /\ pc' = IF entry = "files" THEN "fallback" ELSE "escaped"
    /\ idx' = 0

\* the start table: the table with the most relationships, else the first
\* user table ("" when there is none)
ChooseStart(m, user) ==
    IF m.keys # <<>> THEN MaxKey(m)
    ELSE IF user # <<>> THEN user[1]
    ELSE ""

\* mutant: the start table is fetched whole
StartSamplesAll(t) == {RowIds(t)}

\* rows fetched for the start table: a random max_rows of them when the
\* table has more, else all
StartSamples(t) ==
    IF CountRows(t) > max_rows
    THEN RandomLimit(RowIds(t), max_rows)
    ELSE {RowIds(t)}

\* lines 107-190: tables, relationship map, start table, root sample, queue
ExtractBegin ==
    /\ pc = "extract"
    /\ LET user == UserTables
           m == build_bidirectional_relationship_map(relationships)
           start == ChooseStart(m, user)
       IN IF start = ""
          THEN \* no relationships and no tables: return {}
               /\ NoFrame
               /\ pc' = IF entry = "files" THEN "export" ELSE "done"
               /\ idx' = 0
          ELSE IF QueryFails(start) \/ start \notin SeqToSet(user)
          THEN \* SELECT COUNT(*) raises, or table_info[start_table] does
               ExtractRaises
          ELSE \E rows \in StartSamples(start) :
               /\ all_tables' = user
               /\ relationship_map' = m
               /\ start_table' = start
               /\ tables_data' =
                     Put(EmptyDict, start,
                         [Doc(start, SetToBag(rows), CountRows(start), "initial_random")
                            EXCEPT !.sampled = CountRows(start) > max_rows])
               /\ processed' =
                     [t \in SeqToSet(user) |->
                        IF t = start
                        THEN [sampled |-> TRUE, method |-> "initial_random",
                              related_to |-> <<>>]
                        ELSE Unprocessed]
               /\ queue' = <<start>>
               /\ enqueued' = <<start>>
               /\ seen_edges' = {}
               /\ passed' = <<>>
               /\ current_table' = ""
               /\ rel_idx' = 0
               /\ idx' = 0
               /\ pc' = "bfs"
    /\ UNCHANGED <<pending, db, max_rows, entry, conn, tables, relationships, files,
                   writes, faults>>

\* the relationships the for loop of the current table enumerates
relationships_for_table == EdgesOf(relationship_map, current_table)

\* while queue: current_table = queue.popleft(), once the for loop is over
PopQueue ==
    /\ pc = "bfs"
    /\ rel_idx = Len(relationships_for_table)
    /\ queue # <<>>
    /\ current_table' = Head(queue)
    /\ queue' = Tail(queue)
    /\ rel_idx' = 0
    /\ UNCHANGED <<pending, db, max_rows, entry, pc, conn, tables, relationships,
                   all_tables, relationship_map, start_table, processed,
                   tables_data, seen_edges, idx, files, writes, faults,
                   enqueued, passed>>

\* the queue is empty: the while loop ends
QueueEmpty ==
    /\ pc = "bfs"
    /\ rel_idx = Len(relationships_for_table)
    /\ queue = <<>>
    /\ pc' = "unreached"
    /\ idx' = 0
    /\ UNCHANGED <<pending, db, max_rows, entry, conn, tables, relationships,
                   all_tables, relationship_map, start_table, processed,
                   tables_data, queue, seen_edges, current_table, rel_idx,
                   files, writes, faults, enqueued, passed>>

\* f"{current_table}:{local_column}:{related_table}:{remote_column}"
edge_key(cur, rel) ==
    <<cur, rel.local_column, rel.related_table, rel.remote_column>>

\* distinct non-null values of the current sample at the local column
JoinValues(cur, local_col_idx) ==
    {Cell(cur, rid, local_col_idx) :
        rid \in BagToSet(Get(tables_data, cur).data)} \ {NULL}

\* mutant: the supplement never excludes the primary keys already held
SupplementedNoExclusion(related, matched) ==
    {SetToBag(matched) (+) SetToBag(extra) :
        extra \in RandomLimit(RowIds(related), max_rows - Cardinality(matched))}

\* mutant: the supplement asks for max_rows further rows
SupplementedOverfill(related, matched) ==
    LET pk == get_primary_keys(related)[1]
        pk_idx == ColumnIndex(get_table_columns(related), pk)
        existing_pks == {Cell(related, rid, pk_idx) : rid \in matched} \ {NULL}
    IN {SetToBag(matched) (+) SetToBag(extra) :
            extra \in RandomLimit(SelectNotIn(related, pk, existing_pks), max_rows)}

\* lines 280-326: the matched rows topped up with random further rows
Supplemented(related, matched) ==
    LET additional_needed == max_rows - Cardinality(matched)
        primary_keys == get_primary_keys(related)
        pk == primary_keys[1]
        pk_idx == ColumnIndex(get_table_columns(related), pk)
        existing_pks == {Cell(related, rid, pk_idx) : rid \in matched} \ {NULL}
        pool == IF primary_keys # <<>> /\ pk_idx >= 0 /\ existing_pks # {}
                THEN SelectNotIn(related, pk, existing_pks)
                ELSE RowIds(related)
    IN {SetToBag(matched) (+) SetToBag(extra) :
            extra \in RandomLimit(pool, additional_needed)}

\* mutant: the first test of the chain reads >= max_rows
MatchCaseAtLeast(k) ==
    IF k >= max_rows THEN "related_random_sample"
    ELSE IF k = 0 THEN "fallback_random"
    ELSE IF k < max_rows THEN "related_with_random_supplement"
    ELSE "related_exact"

\* mutant: the zero-match branch is missing
MatchCaseNoFallback(k) ==
    IF k > max_rows THEN "related_random_sample"
    ELSE IF k < max_rows THEN "related_with_random_supplement"
    ELSE "related_exact"

\* mutant: matches below max_rows are taken as they are
MatchCaseExactBelow(k) ==
    IF k > max_rows THEN "related_random_sample"
    ELSE IF k = 0 THEN "fallback_random"
    ELSE "related_exact"

\* lines 272, 275, 280, 327: the branch of the if/elif chain taken for k
\* matched rows, named by the tag it assigns
MatchCase(k) ==
    IF k > max_rows THEN "related_random_sample"
    ELSE IF k = 0 THEN "fallback_random"
    ELSE IF k < max_rows THEN "related_with_random_supplement"
    ELSE "related_exact"

\* lines 271-328: the samples the matched rows may give, with their tag
RelatedSamples(related, matched) ==
    LET method == MatchCase(Cardinality(matched))
        datas ==
          CASE method = "related_random_sample" ->
                 {SetToBag(s) : s \in SubsetsOfSize(matched, max_rows)}
            [] method = "fallback_random" ->
                 {SetToBag(s) : s \in RandomLimit(RowIds(related), max_rows)}
            [] method = "related_with_random_supplement" ->
                 Supplemented(related, matched)
            [] method = "related_exact" -> {SetToBag(matched)}
    IN {[data |-> d, method |-> method] : d \in datas}

\* mutant: the already-sampled check is missing
NeverSampled(related) == FALSE

\* processed.get(related_table, {}).get('sampled', False)
AlreadySampled(related) ==
    related \in DOMAIN processed /\ processed[related].sampled

\* mutant: the predecessor is not recorded
NoAppendPredecessor(related, cur) == processed

\* processed[related_table]['related_to'].append(current_table)
AppendPredecessor(related, cur) ==
    [processed EXCEPT ![related].related_to = Append(@, cur)]

\* what one iteration of the for loop does after the seen-edge check:
\* "skip" (continue, or a caught exception), "append" (already sampled) or
\* "sample" with the rows and the tag
EdgeOutcomes(cur, rel) ==
    LET related == rel.related_table
        local_col_idx == ColumnIndex(get_table_columns(cur), rel.local_column)
    IN IF IsInternal(related) THEN {[kind |-> "skip"]}
       ELSE IF ~Has(tables_data, cur) THEN {[kind |-> "skip"]}
       ELSE IF local_col_idx = -1 THEN {[kind |-> "skip"]}
       ELSE IF JoinValues(cur, local_col_idx) = {} THEN {[kind |-> "skip"]}
       ELSE IF QueryFails(related) THEN {[kind |-> "skip"]}
       ELSE IF AlreadySampled(related) THEN {[kind |-> "append"]}
       ELSE IF ColumnIndex(get_table_columns(related), rel.remote_column) = -1
       THEN {[kind |-> "skip"]}
       ELSE IF related \notin DOMAIN processed THEN {[kind |-> "skip"]}
       ELSE {[kind |-> "sample", data |-> s.data, method |-> s.method] :
                s \in RelatedSamples(related,
                        SelectIn(related, rel.remote_column,
                                 JoinValues(cur, local_col_idx)))}

\* mutant: a table sampled at an edge is not put on the queue
EnqueueNever(q, t) == q

\* if related_table not in queue: queue.append(related_table)
Enqueue(q, t) == IF t \in SeqToSet(q) THEN q ELSE Append(q, t)

\* one iteration of "for rel in relationships_for_table"
ProcessEdge ==
    /\ pc = "bfs"
    /\ rel_idx < Len(relationships_for_table)
    /\ rel_idx' = rel_idx + 1
    /\ LET rel == relationships_for_table[rel_idx + 1]
           related == rel.related_table
           key == edge_key(current_table, rel)
       IN IF key \in seen_edges
          THEN UNCHANGED <<seen_edges, passed, processed, tables_data, queue,
                           enqueued>>
          ELSE /\ seen_edges' = seen_edges \cup {key}
               /\ passed' = Append(passed, key)
               /\ \E o \in EdgeOutcomes(current_table, rel) :
                    CASE o.kind = "skip" ->
                           UNCHANGED <<processed, tables_data, queue, enqueued>>
                      [] o.kind = "append" ->
                           /\ processed' =
                                AppendPredecessor(related, current_table)
                           /\ UNCHANGED <<tables_data, queue, enqueued>>
                      [] o.kind = "sample" ->
                           /\ tables_data' =
                                Put(tables_data, related,
                                    Doc(related, o.data, CountRows(related),
                                        o.method))
                           /\ processed' =
                                [processed EXCEPT ![related] =
                                    [sampled |-> TRUE, method |-> o.method,
                                     related_to |-> <<current_table>>]]
                           /\ queue' = Enqueue(queue, related)
                           /\ enqueued' =
                                IF related \in SeqToSet(queue) THEN enqueued
                                ELSE Append(enqueued, related)
    /\ UNCHANGED <<pending, db, max_rows, entry, pc, conn, tables, relationships,
                   all_tables, relationship_map, start_table, current_table,
                   idx, files, writes, faults>>

\* lines 367-396: one iteration of the loop over the tables not reached
SampleUnreached ==
    /\ pc = "unreached"
    /\ idx < Len(all_tables)
    /\ idx' = idx + 1
    /\ LET table == all_tables[idx + 1] IN
       IF processed[table].sampled \/ QueryFails(table)
       THEN UNCHANGED <<tables_data, processed>>
       ELSE LET row_count == CountRows(table)
                sample_size == Min(max_rows, row_count)
            IN \E rows \in RandomLimit(RowIds(table), sample_size) :
               /\ tables_data' =
                    Put(tables_data, table,
                        [Doc(table, SetToBag(rows), row_count, "random_unrelated")
                           EXCEPT !.sampled = row_count > sample_size])
               /\ processed' =
                    [processed EXCEPT ![table] =
                        [sampled |-> TRUE, method |-> "random_unrelated",
                         related_to |-> <<>>]]
    /\ UNCHANGED <<pending, db, max_rows, entry, pc, conn, tables, relationships,
                   all_tables, relationship_map, start_table, queue,
                   seen_edges, current_table, rel_idx, files, writes, faults,
                   enqueued, passed>>

\* lines 398-408: the summary entry, and the return
ExtractReturn ==
    /\ pc = "unreached"
    /\ idx = Len(all_tables)
    /\ tables_data' =
         Put(tables_data, "__meta__",
             [sampling_summary |-> processed,
              table_relationships |->
                 [keys |-> relationship_map.keys,
                  val |-> [i \in 1..Len(relationship_map.keys) |->
                             [j \in 1..Len(relationship_map.val[i]) |->
                                relationship_map.val[i][j].related_table]]]])
    /\ pc' = IF entry = "files" THEN "export" ELSE "done"
    /\ idx' = 0
    /\ UNCHANGED <<pending, db, max_rows, entry, conn, tables, relationships,
                   all_tables, relationship_map, start_table, processed,
                   queue, seen_edges, current_table, rel_idx, files, writes,
                   faults, enqueued, passed>>

-----------------------------------------------------------------------------
(* sqlite_to_connected_json_files *)

\* with open(output_file, "w") as f: json.dump(doc, f) succeeds
WriteFile(name, doc) ==
    /\ files' = (name :> doc) @@ files
    /\ writes' = (name :> (IF name \in DOMAIN writes THEN writes[name] + 1 ELSE 1))
                    @@ writes
    /\ UNCHANGED faults

\* the write raises (OSError, or TypeError from json.dump)
WriteRaises ==
    /\ faults < MaxFaults
    /\ faults' = faults + 1
    /\ UNCHANGED <<files, writes>>

\* lines 411-417: os.makedirs runs outside the try block
MakeOutputDir ==
    /\ pc = "start"
    /\ \/ pc' = "connect"
       \/ pc' = "escaped"
    /\ UNCHANGED <<pending, db, max_rows, entry, conn, tables, relationships,
                   all_tables, relationship_map, start_table, processed,
                   tables_data, queue, seen_edges, current_table, rel_idx,
                   idx, files, writes, faults, enqueued, passed>>

\* lines 419-431 and 466-468: connect, list the tables and the foreign keys
Connect ==
    /\ pc = "connect"
    /\ \/ \* sqlite3.connect raises: conn was never bound
          /\ conn' = "none"
          /\ pc' = "finally"
          /\ UNCHANGED <<tables, relationships>>
       \/ \* the first statement raises (not a database file)
          /\ conn' = "open"
          /\ pc' = "finally"
          /\ UNCHANGED <<tables, relationships>>
       \/ /\ conn' = "open"
          /\ tables' = MasterTables
          /\ relationships' = get_foreign_key_relationships
          /\ pc' = IF get_foreign_key_relationships = <<>>
                   THEN "direct" ELSE "extract"
    /\ UNCHANGED <<pending, db, max_rows, entry, all_tables, relationship_map,
                   start_table, processed, tables_data, queue, seen_edges,
                   current_table, rel_idx, idx, files, writes, faults,
                   enqueued, passed>>

\* the document of the direct extraction (no row_count field)
DirectDoc(t, rows) ==
    LET row_count == CountRows(t)
        row_limit == Min(max_rows, row_count)
    IN [columns |-> get_table_columns(t),
        data |-> SetToBag(rows),
        total_rows |-> row_count,
        sampled |-> row_count > row_limit,
        sampling_method |-> "random"]

\* lines 435-465: one iteration of the loop over tables when no foreign key
\* was found
DirectExtractTable ==
    /\ pc = "direct"
    /\ idx < Len(tables)
    /\ idx' = idx + 1
    /\ LET table_name == tables[idx + 1] IN
       IF QueryFails(table_name)
       THEN UNCHANGED <<files, writes, faults>>
       ELSE \E rows \in RandomLimit(RowIds(table_name),
                                    Min(max_rows, CountRows(table_name))) :
               \/ WriteFile(table_name, DirectDoc(table_name, rows))
               \/ WriteRaises
    /\ UNCHANGED <<pending, db, max_rows, entry, pc, conn, tables, relationships,
                   all_tables, relationship_map, start_table, processed,
                   tables_data, queue, seen_edges, current_table, rel_idx,
                   enqueued, passed>>

\* the direct or the basic extraction has gone through every table
LoopDone ==
    /\ pc \in {"direct", "fallback"}
    /\ idx = Len(tables)
    /\ pc' = "finally"
    /\ UNCHANGED <<pending, db, max_rows, entry, conn, tables, relationships,
                   all_tables, relationship_map, start_table, processed,
                   tables_data, queue, seen_edges, current_table, rel_idx,
                   idx, files, writes, faults, enqueued, passed>>

\* lines 475-485: one iteration of the export loop over tables_data.items()
ExportTable ==
    /\ pc = "export"
    /\ idx < Len(tables_data.keys)
    /\ LET table_name == tables_data.keys[idx + 1] IN
       IF table_name = "__meta__"
       THEN /\ idx' = idx + 1
            /\ UNCHANGED <<pc, files, writes, faults>>
       ELSE \/ /\ WriteFile(table_name, tables_data.val[idx + 1])
               /\ idx' = idx + 1
               /\ pc' = pc
            \/ /\ WriteRaises
               /\ idx' = 0
               /\ pc' = "fallback"
    /\ UNCHANGED <<pending, db, max_rows, entry, conn, tables, relationships,
                   all_tables, relationship_map, start_table, processed,
                   tables_data, queue, seen_edges, current_table, rel_idx,
                   enqueued, passed>>

\* lines 487-504: metadata.json
ExportMetadata ==
    /\ pc = "export"
    /\ idx = Len(tables_data.keys)
    /\ \/ /\ WriteFile("metadata",
                IF Has(tables_data, "__meta__")
                THEN [relationships |-> relationships,
                      extraction_info |-> Get(tables_data, "__meta__"),
                      max_rows_per_table |-> max_rows]
                ELSE [relationships |-> relationships,
                      max_rows_per_table |-> max_rows])
          /\ pc' = "finally"
          /\ idx' = idx
       \/ /\ WriteRaises
          /\ pc' = "fallback"
          /\ idx' = 0
    /\ UNCHANGED <<pending, db, max_rows, entry, conn, tables, relationships,
                   all_tables, relationship_map, start_table, processed,
                   tables_data, queue, seen_edges, current_table, rel_idx,
                   enqueued, passed>>

\* the document of the basic extraction (no row_count field)
FallbackDoc(t, rows) ==
    [columns |-> get_table_columns(t),
     data |-> SetToBag(rows),
     total_rows |-> CountRows(t),
     sampled |-> CountRows(t) > max_rows,
     sampling_method |-> "fallback_random"]

\* lines 512-540: one iteration of the basic extraction
FallbackTable ==
    /\ pc = "fallback"
    /\ idx < Len(tables)
    /\ idx' = idx + 1
    /\ LET table_name == tables[idx + 1] IN
       IF QueryFails(table_name)
       THEN UNCHANGED <<files, writes, faults>>
       ELSE \E rows \in RandomLimit(RowIds(table_name), max_rows) :
               \/ WriteFile(table_name, FallbackDoc(table_name, rows))
               \/ WriteRaises
    /\ UNCHANGED <<pending, db, max_rows, entry, pc, conn, tables, relationships,
                   all_tables, relationship_map, start_table, processed,
                   tables_data, queue, seen_edges, current_table, rel_idx,
                   enqueued, passed>>

\* mutant: the finally block does not close the connection
FinallyNoClose ==
    /\ pc = "finally"
    /\ pc' = "done"
    /\ UNCHANGED <<pending, db, max_rows, entry, conn, tables, relationships, all_tables,
                   relationship_map, start_table, processed, tables_data,
                   queue, seen_edges, current_table, rel_idx, idx, files,
                   writes, faults, enqueued, passed>>

\* lines 546-548: finally: close the connection if it was bound
Finally ==
    /\ pc = "finally"
    /\ conn' = IF conn = "open" THEN "closed" ELSE conn
    /\ pc' = "done"
    /\ UNCHANGED <<pending, db, max_rows, entry, tables, relationships, all_tables,
                   relationship_map, start_table, processed, tables_data,
                   queue, seen_edges, current_table, rel_idx, idx, files,
                   writes, faults, enqueued, passed>>

-----------------------------------------------------------------------------
(* The databases tried *)

Rel(t, from, r, to) ==
    [table |-> t, ref_table |-> r, from_col |-> from, to_col |-> to]

\* zero or one foreign key
Opt(S) == {<<>>} \cup {<<x>> : x \in S}

\* Foreign-key graphs over A, B, C with one row per table: every
\* combination of a key on A.ref (to a table, a missing table, an engine
\* table, a missing column or no column), a key on A.id, a key on B.ref and
\* a key on C.ref.  Table B may be one whose statements the engine rejects.
GraphRows ==
    [t \in {"A", "B", "C", "sqlite_sequence"} |->
        << <<1, 1>> >>]

GraphFks ==
    {[A |-> aref \o aid, B |-> bref, C |-> cref] :
        aref \in Opt({Rel("A", "ref", r, "id") :
                         r \in {"A", "B", "C", "ghost", "sqlite_sequence"}}
                     \cup {Rel("A", "ref", "B", ""), Rel("A", "ref", "B", "nocol")}),
        aid \in Opt({Rel("A", "id", r, "id") : r \in {"B", "C"}}),
        bref \in Opt({Rel("B", "ref", r, "id") :
                         r \in {"A", "B", "C", "ghost", "sqlite_sequence"}}),
        cref \in Opt({Rel("C", "ref", r, "id") : r \in {"A", "B", "C"}})}

GraphDbs ==
    {[tables |-> <<"A", "sqlite_sequence", "B", "C">>, rows |-> GraphRows,
      fks |-> f, bad |-> b] :
        f \in GraphFks, b \in {{}, {"B"}}}

\* Row contents for A (referencing) and B (referenced): A holds up to
\* MaxTableRows rows with ids 1..n and any ref in NULL, 1, 2; B holds up to
\* MaxTableRows rows with ref 1 and ids 1..n, the first id possibly NULL, or
\* the two rows (NULL, 1), (2, 2);
\* C, when present, holds MaxTableRows rows that all reference id 1.
SeqsUpTo(S, n) == UNION {[1..k -> S] : k \in 0..n}

ContentsA ==
    {[i \in 1..Len(refs) |-> <<i, refs[i]>>] :
        refs \in SeqsUpTo({NULL, 1, 2}, MaxTableRows)}

ContentsB ==
    {[i \in 1..n |-> <<IF i = 1 /\ nullFirst THEN NULL ELSE i, 1>>] :
        n \in 0..MaxTableRows, nullFirst \in BOOLEAN}
    \cup {<< <<NULL, 1>>, <<2, 2>> >>}

ContentsC == [i \in 1..MaxTableRows |-> <<i, 1>>]

RowFks ==
    {[A |-> <<>>, B |-> <<>>, C |-> <<>>],
     [A |-> <<Rel("A", "ref", "B", "id")>>, B |-> <<>>, C |-> <<>>],
     [A |-> <<Rel("A", "ref", "B", "ref")>>, B |-> <<>>, C |-> <<>>],
     [A |-> <<Rel("A", "ref", "B", "id")>>, B |-> <<>>,
      C |-> <<Rel("C", "ref", "B", "id")>>]}

\* plain contents: n rows with ids 1..n that all hold ref 1
ContentsPlain ==
    {[i \in 1..n |-> <<i, 1>>] : n \in 0..MaxTableRows}

RowDbsOf(contentsA, contentsB) ==
    {[tables |-> ts,
      rows |-> [t \in SeqToSet(ts) |->
                  IF t = "A" THEN a ELSE IF t = "B" THEN b ELSE ContentsC],
      fks |-> [t \in SeqToSet(ts) |-> f[t]], bad |-> {}] :
        ts \in {<<"A", "B">>, <<"A", "B", "C">>},
        a \in contentsA, b \in contentsB, f \in RowFks}

\* the row-content family of extract_related_samples
RowDbs == RowDbsOf(ContentsA, ContentsB)

\* the row-content family of whole runs
FileRowDbs == RowDbsOf(ContentsPlain, ContentsPlain)

InitLocals ==
    /\ tables = <<>>
    /\ all_tables = <<>>
    /\ relationship_map = EmptyDict
    /\ start_table = ""
    /\ processed = <<>>
    /\ tables_data = EmptyDict
    /\ queue = <<>>
    /\ seen_edges = {}
    /\ current_table = ""
    /\ rel_idx = 0
    /\ idx = 0
    /\ files = <<>>
    /\ writes = <<>>
    /\ faults = 0
    /\ enqueued = <<>>
    /\ passed = <<>>

\* sqlite_to_connected_json_files(db_path, output_root, max_rows) is called
InitFiles ==
    /\ db \in GraphDbs \cup FileRowDbs
    /\ max_rows \in 0..MaxRowsCap
    /\ entry = "files"
    /\ pc = "start"
    /\ conn = "none"
    /\ relationships = <<>>
    /\ InitLocals
    /\ pending = 0

\* extract_related_samples(conn, relationships, max_rows) is called on an
\* open connection with the foreign keys of the database
InitSamples ==
    /\ db \in RowDbs
    /\ max_rows \in 0..MaxRowsCap
    /\ entry = "samples"
    /\ pc = "extract"
    /\ conn = "open"
    /\ relationships = get_foreign_key_relationships
    /\ InitLocals
    /\ pending = 0

Init == InitFiles \/ InitSamples

Next ==
    \/ MakeOutputDir
    \/ Connect
    \/ DirectExtractTable
    \/ LoopDone
    \/ ExtractBegin
    \/ PopQueue
    \/ ProcessEdge
    \/ QueueEmpty
    \/ SampleUnreached
    \/ ExtractReturn
    \/ ExportTable
    \/ ExportMetadata
    \/ FallbackTable
    \/ Finally

Spec == Init /\ [][Next]_vars

-----------------------------------------------------------------------------
(* Vocabulary of the properties *)

\* the user tables that have a document in tables_data
SampledTables == KeySet(tables_data) \ {"__meta__"}

\* the table files of the output directory
TableFiles == DOMAIN files \ {"metadata"}

Rows(doc) == BagCardinality(doc.data)

\* extract_related_samples has returned its result
Returned == Has(tables_data, "__meta__")

\* the for loop is about to enumerate an edge
AtEdge == pc = "bfs" /\ rel_idx < Len(relationships_for_table)

NextRel == relationships_for_table[rel_idx + 1]

NextLocalIdx == ColumnIndex(get_table_columns(current_table), NextRel.local_column)

\* the edge passes the seen-edge check and yields join values, and the
\* related table is a user table that answers queries
EdgeWithJoinValues ==
    /\ AtEdge
    /\ edge_key(current_table, NextRel) \notin seen_edges
    /\ ~IsInternal(NextRel.related_table)
    /\ NextRel.related_table \in SeqToSet(all_tables)
    /\ ~QueryFails(NextRel.related_table)
    /\ NextLocalIdx # -1
    /\ JoinValues(current_table, NextLocalIdx) # {}

\* ... and the related table, not yet sampled, is queried successfully
EdgeReachesUnsampled ==
    /\ EdgeWithJoinValues
    /\ ~processed[NextRel.related_table].sampled
    /\ ColumnIndex(get_table_columns(NextRel.related_table),
                   NextRel.remote_column) # -1

\* the rows of the related table that match the join values
EdgeMatches ==
    SelectIn(NextRel.related_table, NextRel.remote_column,
             JoinValues(current_table, NextLocalIdx))

-----------------------------------------------------------------------------
(* C1: every table of the sample set of extract_related_samples, and every *)
(* table file written by sqlite_to_connected_json_files, holds at most     *)
(* max_rows rows.                                                          *)
C1_AtMostMaxRows ==
    /\ \A t \in SampledTables : Rows(Get(tables_data, t)) <= max_rows
    /\ \A f \in TableFiles : Rows(files[f]) <= max_rows

\* a run ends with a truncated table file of exactly max_rows > 0 rows and
\* a truncated file written by the direct or the basic extraction
C1_Witness ==
    /\ pc = "done"
    /\ max_rows > 0
    /\ \E f \in TableFiles :
          /\ files[f].total_rows > max_rows
          /\ Rows(files[f]) = max_rows
          /\ files[f].sampling_method \in {"initial_random", "related_random_sample"}

-----------------------------------------------------------------------------
(* C2: at the end of a run on a database that was opened, every table of   *)
(* the database has been written exactly once.  Stated for the user tables *)
(* of a run in which no file write failed.                                 *)
C2_EveryTableOnce ==
    (pc = "done" /\ entry = "files" /\ tables # <<>> /\ faults = 0)
        => \A t \in SeqToSet(UserTables) : t \in DOMAIN writes /\ writes[t] = 1

-----------------------------------------------------------------------------
(* C3: idempotent visitation: once processed[t].sampled is True it stays   *)
(* True, and the document stored for t is never replaced.                  *)
C3_SampledOnce ==
    [][\A t \in DOMAIN processed \cap DOMAIN processed' :
          processed[t].sampled =>
             /\ processed'[t].sampled
             /\ Has(tables_data', t)
             /\ Get(tables_data', t) = Get(tables_data, t)]_vars

\* a traversal of a cyclic or self-referencing graph has come back to a
\* sampled table by at least two edges
C3_Witness ==
    /\ Returned
    /\ \E t \in DOMAIN processed :
          /\ processed[t].sampled
          /\ Len(processed[t].related_to) >= 2
          /\ \E i \in 1..Len(relationships) :
                relationships[i].table = t /\ relationships[i].ref_table = t

-----------------------------------------------------------------------------
(* C4 as stated: an edge with join values that reaches an unsampled table  *)
(* with at least max_rows matching rows stores exactly max_rows rows       *)
(* tagged related_random_sample.                                           *)
C4_AtLeastMaxRows ==
    [][(EdgeReachesUnsampled /\ Cardinality(EdgeMatches) >= max_rows) =>
          LET doc == Get(tables_data', NextRel.related_table) IN
          /\ Rows(doc) = max_rows
          /\ doc.sampling_method = "related_random_sample"]_vars

(* C4 amended: the sample has exactly max_rows rows; it is tagged          *)
(* related_random_sample when more than max_rows rows match and            *)
(* related_exact when exactly max_rows rows match.                         *)
C4_MaxRowsOrExact ==
    [][(EdgeReachesUnsampled /\ Cardinality(EdgeMatches) >= max_rows) =>
          LET doc == Get(tables_data', NextRel.related_table) IN
          /\ Has(tables_data', NextRel.related_table)
          /\ Rows(doc) = max_rows
          /\ doc.row_count = max_rows
          /\ doc.sampling_method =
                IF Cardinality(EdgeMatches) > max_rows
                THEN "related_random_sample" ELSE "related_exact"
          /\ processed'[NextRel.related_table].method = doc.sampling_method]_vars

\* both cases have happened in one traversal
C4_Witness ==
    /\ Returned
    /\ \E t \in SampledTables :
          LET d == Get(tables_data, t) IN
          /\ d.sampling_method = "related_random_sample"
          /\ Rows(d) = max_rows
          /\ d.total_rows > max_rows
    /\ \E t \in SampledTables :
          LET d == Get(tables_data, t) IN
          d.sampling_method = "related_exact" /\ Rows(d) = max_rows

-----------------------------------------------------------------------------
(* C5: an edge with join values that finds no matching row in an unsampled *)
(* related table samples it with tag fallback_random, and the sample is    *)
(* nonempty when the table has a row.                                      *)
C5_ZeroMatchFallback ==
    [][(EdgeReachesUnsampled /\ EdgeMatches = {}) =>
          LET related == NextRel.related_table
              doc == Get(tables_data', related)
          IN /\ Has(tables_data', related)
             /\ processed'[related].sampled
             /\ doc.sampling_method = "fallback_random"
             /\ (CountRows(related) >= 1 => Rows(doc) >= 1)]_vars

\* a table with rows was sampled by the zero-match fallback
C5_Witness ==
    \E t \in SampledTables :
       LET d == Get(tables_data, t) IN
       /\ d.sampling_method = "fallback_random"
       /\ d.total_rows >= 1
       /\ Rows(d) >= 1
       /\ processed[t].related_to # <<>>

-----------------------------------------------------------------------------
(* C6: in a database without foreign keys every table is tagged            *)
(* random_unrelated and holds min(max_rows, row count) rows, through       *)
(* sqlite_to_connected_json_files and through extract_related_samples with *)
(* an empty relationship list.  Stated for runs without failures.          *)
NoForeignKeys == \A t \in DOMAIN db.fks : db.fks[t] = <<>>

C6_AllRandomUnrelated ==
    (/\ pc = "done"
     /\ NoForeignKeys
     /\ db.bad = {}
     /\ faults = 0
     /\ entry = "files" => tables # <<>>)
        => \A t \in SeqToSet(UserTables) :
              LET d == IF entry = "files" THEN files[t] ELSE Get(tables_data, t)
              IN /\ d.sampling_method = "random_unrelated"
                 /\ Rows(d) = Min(max_rows, CountRows(t))

-----------------------------------------------------------------------------
(* C7: an edge with join values that leads to a table already sampled      *)
(* leaves the table's document and method tag unchanged and appends the    *)
(* table the edge comes from to its related_to.                            *)
C7_SecondEdgeAppends ==
    [][(EdgeWithJoinValues /\ processed[NextRel.related_table].sampled) =>
          LET T == NextRel.related_table IN
          /\ Get(tables_data', T) = Get(tables_data, T)
          /\ processed'[T].sampled
          /\ processed'[T].method = processed[T].method
          /\ processed'[T].related_to =
                Append(processed[T].related_to, current_table)]_vars

\* T is not the root, two other tables declare a foreign key to T, T was
\* sampled from the first and the second was appended
C7_Witness ==
    /\ Returned
    /\ \E T \in SampledTables :
          LET p == processed[T].related_to IN
          /\ T # start_table
          /\ Len(p) = 2
          /\ p[1] # p[2] /\ p[1] # T /\ p[2] # T
          /\ \A k \in 1..2 :
                \E i \in 1..Len(relationships) :
                   relationships[i].table = p[k] /\ relationships[i].ref_table = T

-----------------------------------------------------------------------------
(* C8: orders A(id, ref) and customers B(id, .) with the single foreign    *)
(* key A.ref -> B.id, more orders than max_rows, every order referencing   *)
(* an existing customer (customer ids unique and not NULL).                *)
OrdersCustomers ==
    /\ db.tables = <<"A", "B">>
    /\ db.bad = {}
    /\ relationships = <<Rel("A", "ref", "B", "id")>>
    /\ CountRows("A") > max_rows
    /\ \A i, j \in RowIds("B") :
          /\ Cell("B", i, 0) # NULL
          /\ Cell("B", i, 0) = Cell("B", j, 0) => i = j
    /\ \A o \in RowIds("A") :
          /\ Cell("A", o, 1) # NULL
          /\ \E c \in RowIds("B") : Cell("B", c, 0) = Cell("A", o, 1)

\* the customers referenced by the sampled orders
ReferencedCustomers ==
    {c \in RowIds("B") :
        \E o \in BagToSet(Get(tables_data, "A").data) :
           Cell("B", c, 0) = Cell("A", o, 1)}

C8_OrdersCustomers ==
    (Returned /\ OrdersCustomers) =>
        LET orders == Get(tables_data, "A")
            customers == Get(tables_data, "B")
        IN /\ Rows(orders) = max_rows
           /\ \A c \in ReferencedCustomers : BagIn(c, customers.data)
           /\ \A c \in RowIds("B") : CopiesIn(c, customers.data) <= 1
           /\ Rows(customers) = Min(max_rows, CountRows("B"))
           /\ (max_rows > 0 /\ Cardinality(ReferencedCustomers) < max_rows)
                 => customers.sampling_method = "related_with_random_supplement"

\* two sampled orders reference one customer, and another customer pads
\* the sample
C8_Witness ==
    /\ Returned
    /\ OrdersCustomers
    /\ Cardinality(ReferencedCustomers) = 1
    /\ Rows(Get(tables_data, "B")) = 2
    /\ Rows(Get(tables_data, "A")) = 2
    /\ Get(tables_data, "B").sampling_method = "related_with_random_supplement"

-----------------------------------------------------------------------------
(* C9: the BFS loop terminates: no table is put on the queue twice, no     *)
(* edge key passes the seen-edge check twice, and the loop is left.        *)
NoRepeats(s) == \A i, j \in 1..Len(s) : s[i] = s[j] => i = j

\* tables popped from the queue so far
Popped == SeqToSet(enqueued) \ SeqToSet(queue)

\* iterations still ahead for the tables of S: a pop and a full for loop each
RECURSIVE PendingSteps(_)
PendingSteps(S) ==
    IF S = {} THEN 0
    ELSE LET t == CHOOSE y \in S : TRUE
         IN  Len(EdgesOf(relationship_map, t)) + 1 + PendingSteps(S \ {t})

\* iterations the loops can still make: the rest of the running for loop,
\* and a pop and a full for loop for every table not popped yet
Rank ==
    (Len(relationships_for_table) - rel_idx)
    + PendingSteps((KeySet(relationship_map) \cup SeqToSet(all_tables)) \ Popped)

C9_BfsTerminates ==
    /\ [](NoRepeats(enqueued) /\ NoRepeats(passed))
    /\ [][(pc = "bfs" /\ pc' = "bfs") => (Rank' < Rank /\ Rank' >= 0)]_vars
    /\ [](pc = "bfs" => <>(pc = "unreached"))

\* a traversal over a cycle of foreign keys has ended with every table
\* enqueued
C9_Witness ==
    /\ pc = "unreached"
    /\ Len(enqueued) = 3
    /\ \E i, j \in 1..Len(relationships) :
          /\ relationships[i].table = relationships[j].ref_table
          /\ relationships[j].table = relationships[i].ref_table
          /\ relationships[i].table # relationships[i].ref_table
          /\ ValidRel(relationships[i]) /\ ValidRel(relationships[j])
    /\ \E i \in 1..Len(relationships) :
          relationships[i].table = relationships[i].ref_table

-----------------------------------------------------------------------------
(* C10: every sampling_method written, in tables_data or in a table file,  *)
(* is one of the six tags.                                                 *)
SixTags ==
    {"initial_random", "related_exact", "related_random_sample",
     "related_with_random_supplement", "fallback_random", "random_unrelated"}

C10_SixTags ==
    /\ \A t \in SampledTables : Get(tables_data, t).sampling_method \in SixTags
    /\ \A f \in TableFiles : files[f].sampling_method \in SixTags

\* extract_related_samples alone, called on the foreign-key graphs
InitTraversal ==
    /\ db \in GraphDbs
    /\ max_rows \in 0..MaxRowsCap
    /\ entry = "samples"
    /\ pc = "extract"
    /\ conn = "open"
    /\ relationships = get_foreign_key_relationships
    /\ InitLocals
    /\ pending = 0

NextTraversal ==
    \/ ExtractBegin
    \/ PopQueue
    \/ ProcessEdge
    \/ QueueEmpty
    \/ SampleUnreached
    \/ ExtractReturn

\* one step of the while loop and its for loop
LoopStep == PopQueue \/ ProcessEdge \/ QueueEmpty

\* the sequential program always takes the next step of its loops
TraversalFairSpec ==
    InitTraversal /\ [][NextTraversal]_vars /\ WF_vars(LoopStep)

-----------------------------------------------------------------------------
(* C11: every table document in the output directory carries the six       *)
(* fields columns, data, row_count, total_rows, sampled, sampling_method.  *)
SixFields ==
    {"columns", "data", "row_count", "total_rows", "sampled", "sampling_method"}

C11_SixFields ==
    \A f \in TableFiles : DOMAIN files[f] = SixFields

-----------------------------------------------------------------------------
(* C12: once a database that could be opened and listed has been           *)
(* processed with every file write succeeding, the output directory holds  *)
(* metadata.json, written exactly                                          *)
(* once, with the relationship list, the traversal summary and max_rows.   *)
DatabaseProcessed ==
    /\ entry = "files"
    /\ pc = "done"
    /\ conn = "closed"
    /\ tables # <<>>
    /\ faults = 0

C12_OneMetadata ==
    DatabaseProcessed =>
       /\ "metadata" \in DOMAIN files
       /\ writes["metadata"] = 1
       /\ DOMAIN files["metadata"] =
             {"relationships", "extraction_info", "max_rows_per_table"}
       /\ files["metadata"].relationships = relationships
       /\ files["metadata"].max_rows_per_table = max_rows

-----------------------------------------------------------------------------
(* C13: a table file is written at most once, with the document the        *)
(* relational extraction sampled for it: a failed write neither rewrites   *)
(* nor re-samples the tables exported before it, and the tables after it   *)
(* are still exported from the same sample map.                            *)
C13_WriteFailureLocal ==
    /\ \A f \in TableFiles : writes[f] <= 1
    /\ (pc = "done" /\ Returned) =>
          \A t \in SampledTables :
             t \in TableFiles => files[t] = Get(tables_data, t)

-----------------------------------------------------------------------------
(* C14: no exception leaves sqlite_to_connected_json_files.                *)
C14_NoEscape ==
    entry = "files" => pc # "escaped"


-----------------------------------------------------------------------------
(* C15: when sqlite_to_connected_json_files is over, a connection it       *)
(* opened is closed.                                                       *)
C15_ConnectionClosed ==
    (entry = "files" /\ pc \in {"done", "escaped"}) => conn # "open"

\* the run went through the basic extraction and closed its connection
C15_Witness ==
    /\ entry = "files"
    /\ pc = "done"
    /\ conn = "closed"
    /\ \E f \in TableFiles : files[f].sampling_method = "fallback_random"


-----------------------------------------------------------------------------
(* process_dataset_folder without db_id: the databases of a folder, one    *)
(* call of sqlite_to_connected_json_files after the other                  *)

\* the database files of the batch: the foreign-key graphs
BatchDbs == {d \in GraphDbs : d.bad = {}}

\* the first database of the batch is about to be processed
InitBatch ==
    /\ db \in BatchDbs
    /\ max_rows \in 0..MaxRowsCap
    /\ entry = "files"
    /\ pc = "start"
    /\ conn = "none"
    /\ relationships = <<>>
    /\ InitLocals
    /\ pending = BatchSize - 1

\* lines 572-582: the call for one database has returned, the for loops go
\* on to the next database file, into an output directory of its own; an
\* exception that left the call has left process_dataset_folder as well
NextDatabase ==
    /\ pc = "done"
    /\ entry = "files"
    /\ pending > 0
    /\ pending' = pending - 1
    /\ db' \in BatchDbs
    /\ pc' = "start"
    /\ conn' = "none"
    /\ tables' = <<>>
    /\ relationships' = <<>>
    /\ NoFrame
    /\ idx' = 0
    /\ files' = <<>>
    /\ writes' = <<>>
    /\ faults' = 0
    /\ UNCHANGED <<max_rows, entry>>

NextBatch == Next \/ NextDatabase

BatchSpec == InitBatch /\ [][NextBatch]_vars

-----------------------------------------------------------------------------
(* C16: in a batch the next database is started only after the run of the  *)
(* one before it is over with its connection closed, and no run ends in a  *)
(* way that leaves later databases of the batch unprocessed.               *)
C16_BatchContinues ==
    /\ (pc = "start" /\ pending < BatchSize - 1) => conn = "none"
    /\ pc = "escaped" => pending = 0


-----------------------------------------------------------------------------
(* C17: when the query for the matching rows of a related table not yet    *)
(* sampled fails, that step samples the table with the tag fallback_random,*)
(* records the current table as its predecessor and enqueues it.           *)
FetchQueryFails ==
    /\ EdgeWithJoinValues
    /\ ~processed[NextRel.related_table].sampled
    /\ ColumnIndex(get_table_columns(NextRel.related_table),
                   NextRel.remote_column) = -1

C17_FailedQueryFallsBack ==
    [][FetchQueryFails =>
          LET T == NextRel.related_table IN
          /\ processed'[T].sampled
          /\ processed'[T].method = "fallback_random"
          /\ processed'[T].related_to = <<current_table>>
          /\ Has(tables_data', T)
          /\ T \in SeqToSet(queue')]_vars


-----------------------------------------------------------------------------
(* C18: the relationship map holds, for every relationship with its four   *)
(* fields non-empty, one outgoing edge on the source table and one         *)
(* incoming edge on the target table with the columns swapped, and nothing *)
(* else: twice as many edges as valid relationships, half of them outgoing.*)

\* positions of the relationships that have all four fields
CompleteRels ==
    {i \in 1..Len(relationships) :
        /\ relationships[i].table # ""
        /\ relationships[i].ref_table # ""
        /\ relationships[i].from_col # ""
        /\ relationships[i].to_col # ""}

\* the edges of a map, each as <<position of the key, position in its list>>
EdgeSlots(m) ==
    UNION {{<<k, j>> : j \in 1..Len(m.val[k])} : k \in 1..Len(m.keys)}

SlotsTagged(m, direction) ==
    {sl \in EdgeSlots(m) : m.val[sl[1]][sl[2]].direction = direction}

C18_TwoEdgesPerRelationship ==
    LET m == build_bidirectional_relationship_map(relationships) IN
    /\ Cardinality(EdgeSlots(m)) = 2 * Cardinality(CompleteRels)
    /\ Cardinality(SlotsTagged(m, "outgoing")) = Cardinality(CompleteRels)
    /\ Cardinality(SlotsTagged(m, "incoming")) = Cardinality(CompleteRels)
    /\ \A i \in CompleteRels :
          LET rel == relationships[i] IN
          /\ \E sl \in SlotsTagged(m, "outgoing") :
                /\ m.keys[sl[1]] = rel.table
                /\ m.val[sl[1]][sl[2]].related_table = rel.ref_table
                /\ m.val[sl[1]][sl[2]].local_column = rel.from_col
                /\ m.val[sl[1]][sl[2]].remote_column = rel.to_col
          /\ \E sl \in SlotsTagged(m, "incoming") :
                /\ m.keys[sl[1]] = rel.ref_table
                /\ m.val[sl[1]][sl[2]].related_table = rel.table
                /\ m.val[sl[1]][sl[2]].local_column = rel.to_col
                /\ m.val[sl[1]][sl[2]].remote_column = rel.from_col
    /\ pc = "bfs" => relationship_map = m

\* a traversal runs on the map of a list with a relationship that lacks a
\* field, a self-reference and a key between two tables
C18_Witness ==
    /\ pc = "bfs"
    /\ relationship_map = build_bidirectional_relationship_map(relationships)
    /\ CompleteRels # 1..Len(relationships)
    /\ \E i \in CompleteRels : relationships[i].table = relationships[i].ref_table
    /\ \E i \in CompleteRels : relationships[i].table # relationships[i].ref_table


-----------------------------------------------------------------------------
(* C19: of the two edge keys of one foreign key (the key of its outgoing   *)
(* edge and the key of its incoming edge) at most one passes the seen-edge *)
(* check during a traversal.                                               *)

\* the checks the edges of relationship i have passed, as positions of passed
PassesOf(i) ==
    LET r == relationships[i]
        out == <<r.table, r.from_col, r.ref_table, r.to_col>>
        inc == <<r.ref_table, r.to_col, r.table, r.from_col>>
    IN {j \in 1..Len(passed) : passed[j] \in {out, inc}}

C19_PhysicalKeyOnce ==
    \A i \in 1..Len(relationships) : Cardinality(PassesOf(i)) <= 1


-----------------------------------------------------------------------------
(* C20: with a non-empty relationship map the root is a key of the map     *)
(* with the most edges, the first such key in insertion order; with an     *)
(* empty map it is the first user table.                                   *)
C20_RootChoice ==
    LET m == build_bidirectional_relationship_map(relationships)
        root == ChooseStart(m, UserTables)
    IN /\ m.keys # <<>> =>
             \E i \in 1..Len(m.keys) :
                /\ m.keys[i] = root
                /\ \A j \in 1..Len(m.keys) : Len(m.val[j]) <= Len(m.val[i])
                /\ \A j \in 1..(i - 1) : Len(m.val[j]) < Len(m.val[i])
       /\ (m.keys = <<>> /\ UserTables # <<>>) => root = UserTables[1]
       /\ pc \in {"bfs", "unreached"} => start_table = root

\* the traversal started from a table that is not the first key of the map
\* and that ties with a later key for the most edges
C20_Witness ==
    /\ pc = "bfs"
    /\ relationship_map.keys # <<>>
    /\ start_table # relationship_map.keys[1]
    /\ \E i, j \in 1..Len(relationship_map.keys) :
          /\ i < j
          /\ relationship_map.keys[i] = start_table
          /\ Len(relationship_map.val[j]) = Len(relationship_map.val[i])


-----------------------------------------------------------------------------
(* C21: a table sampled without join logic (the root, initial_random; a    *)
(* table not reached, random_unrelated) holds min(max_rows, row count)     *)
(* rows, each row at most once.                                            *)
SampledWithoutJoin ==
    {t \in SampledTables :
        Get(tables_data, t).sampling_method \in {"initial_random", "random_unrelated"}}

C21_PlainSampleSize ==
    \A t \in SampledWithoutJoin :
       LET d == Get(tables_data, t) IN
       /\ Rows(d) = Min(max_rows, CountRows(t))
       /\ \A rid \in RowIds(t) : CopiesIn(rid, d.data) <= 1
       /\ d.sampling_method = "initial_random" <=> t = start_table

\* the root kept all of its rows and a table not reached was cut to max_rows
C21_Witness ==
    /\ Returned
    /\ CountRows(start_table) > 0
    /\ Rows(Get(tables_data, start_table)) = CountRows(start_table)
    /\ \E t \in SampledWithoutJoin :
          /\ t # start_table
          /\ CountRows(t) > max_rows
          /\ Rows(Get(tables_data, t)) = max_rows


-----------------------------------------------------------------------------
(* C22: when the queue has emptied, a user table not yet sampled is not    *)
(* joined to the root by any path of relationship edges.                   *)

\* the while loop is over and the loop over all_tables has not begun
QueueEmptied == pc = "unreached" /\ idx = 0

Unsampled == {t \in SeqToSet(all_tables) : ~processed[t].sampled}

Neighbours(t) ==
    {EdgesOf(relationship_map, t)[i].related_table :
        i \in 1..Len(EdgesOf(relationship_map, t))}

\* the tables joined to those of S by relationship edges
RECURSIVE ReachFrom(_)
ReachFrom(S) ==
    LET N == S \cup UNION {Neighbours(t) : t \in S}
    IN IF N = S THEN S ELSE ReachFrom(N)

Joins(s, e) ==
    LET local_col_idx == ColumnIndex(get_table_columns(s), e.local_column)
    IN /\ local_col_idx # -1
       /\ JoinValues(s, local_col_idx) # {}
       /\ ~QueryFails(e.related_table)
       /\ ColumnIndex(get_table_columns(e.related_table), e.remote_column) # -1

-----------------------------------------------------------------------------
(* C23: an edge that finds k matching rows, 0 < k < max_rows, in an        *)
(* unsampled related table stores all k of them and at most max_rows - k   *)
(* further rows of that table, tagged related_with_random_supplement; when *)
(* the first primary key is known and a matched row has a value for it, no *)
(* further row repeats a primary-key value of the matched rows.            *)

\* primary-key values of the matched rows (existing_pks)
MatchedPks ==
    LET T == NextRel.related_table
        pk_idx == ColumnIndex(get_table_columns(T), get_primary_keys(T)[1])
    IN IF get_primary_keys(T) = <<>> \/ pk_idx = -1 THEN {}
       ELSE {Cell(T, rid, pk_idx) : rid \in EdgeMatches} \ {NULL}

C23_Supplement ==
    [][(/\ EdgeReachesUnsampled
        /\ Cardinality(EdgeMatches) > 0
        /\ Cardinality(EdgeMatches) < max_rows) =>
          LET T == NextRel.related_table
              k == Cardinality(EdgeMatches)
              doc == Get(tables_data', T)
              extra == doc.data (-) SetToBag(EdgeMatches)
              pk_idx == ColumnIndex(get_table_columns(T), get_primary_keys(T)[1])
          IN /\ Has(tables_data', T)
             /\ \A rid \in EdgeMatches : BagIn(rid, doc.data)
             /\ Rows(doc) = k + BagCardinality(extra)
             /\ BagCardinality(extra) <= max_rows - k
             /\ BagToSet(extra) \subseteq RowIds(T)
             /\ doc.sampling_method = "related_with_random_supplement"
             /\ processed'[T].method = "related_with_random_supplement"
             /\ MatchedPks # {} =>
                   \A rid \in BagToSet(extra) :
                      Cell(T, rid, pk_idx) \notin MatchedPks]_vars

\* matched rows were topped up to max_rows from a table that holds more
C23_Witness ==
    \E t \in SampledTables :
       LET d == Get(tables_data, t) IN
       /\ d.sampling_method = "related_with_random_supplement"
       /\ Rows(d) = max_rows
       /\ CountRows(t) > max_rows
       /\ \A rid \in RowIds(t) : CopiesIn(rid, d.data) <= 1


-----------------------------------------------------------------------------
(* C24: a related table sampled from k matching rows, 0 < k <= max_rows,   *)
(* whose sample received no further row is tagged related_exact.           *)
C24_NoSupplementExact ==
    [][(/\ EdgeReachesUnsampled
        /\ Cardinality(EdgeMatches) > 0
        /\ Cardinality(EdgeMatches) <= max_rows
        /\ Get(tables_data', NextRel.related_table).data = SetToBag(EdgeMatches))
          => Get(tables_data', NextRel.related_table).sampling_method
                = "related_exact"]_vars

(* C24, amended: a related table sampled from k matching rows,             *)
(* 0 < k <= max_rows, is tagged related_exact exactly when k = max_rows,   *)
(* and then holds the matched rows alone; with k < max_rows it is tagged   *)
(* related_with_random_supplement whether or not a further row was added.  *)
C24_ExactOnlyAtQuota ==
    [][(/\ EdgeReachesUnsampled
        /\ Cardinality(EdgeMatches) > 0
        /\ Cardinality(EdgeMatches) <= max_rows) =>
          LET doc == Get(tables_data', NextRel.related_table) IN
          /\ Has(tables_data', NextRel.related_table)
          /\ doc.sampling_method = "related_exact"
                <=> Cardinality(EdgeMatches) = max_rows
          /\ Cardinality(EdgeMatches) = max_rows
                => doc.data = SetToBag(EdgeMatches)
          /\ Cardinality(EdgeMatches) < max_rows
                => doc.sampling_method = "related_with_random_supplement"]_vars

\* the only row of a table matched, max_rows allowed more, and nothing could
\* be added
C24_Witness ==
    \E t \in SampledTables :
       LET d == Get(tables_data, t) IN
       /\ d.sampling_method = "related_with_random_supplement"
       /\ CountRows(t) = 1
       /\ Rows(d) = 1
       /\ max_rows > 1


-----------------------------------------------------------------------------
(* C25: every table named in the related_to of a table was sampled before  *)
(* that table; the related_to of the root is empty.                        *)

\* tables are sampled by the traversal in the order they are enqueued
SampledAt(t) == CHOOSE i \in 1..Len(enqueued) : enqueued[i] = t

C25_PredecessorsFirst ==
    /\ \A t \in SeqToSet(enqueued) :
          \A i \in 1..Len(processed[t].related_to) :
             LET p == processed[t].related_to[i] IN
             /\ p \in SeqToSet(enqueued)
             /\ SampledAt(p) < SampledAt(t)
    /\ start_table \in DOMAIN processed =>
          processed[start_table].related_to = <<>>


-----------------------------------------------------------------------------
(* C26: no engine-internal table is in the sample set or among the table   *)
(* files.                                                                  *)
C26_NoInternalTables ==
    \A t \in SampledTables \cup TableFiles : ~IsInternal(t)


-----------------------------------------------------------------------------
(* C27: between the steps of a traversal a table has a document in         *)
(* tables_data exactly when it is marked sampled, the two carry the same   *)
(* method tag, and every table on the queue has a document.                *)
C27_SampledIffStored ==
    /\ SampledTables \subseteq DOMAIN processed
    /\ \A t \in DOMAIN processed :
          /\ Has(tables_data, t) <=> processed[t].sampled
          /\ processed[t].sampled =>
                processed[t].method = Get(tables_data, t).sampling_method
    /\ \A i \in 1..Len(queue) : Has(tables_data, queue[i])

\* mid-traversal: a table sampled at an edge waits on the queue while
\* another table is still unsampled
C27_Witness ==
    /\ pc = "bfs"
    /\ \E i \in 1..Len(queue) :
          queue[i] # start_table /\ processed[queue[i]].sampled
    /\ \E t \in DOMAIN processed : ~processed[t].sampled


-----------------------------------------------------------------------------
(* C28: the root chosen for a traversal is a user table of the database.   *)
C28_RootIsUserTable ==
    LET root == ChooseStart(build_bidirectional_relationship_map(relationships),
                            UserTables)
    IN (pc = "extract" /\ UserTables # <<>>) =>
          root \in SeqToSet(UserTables)


-----------------------------------------------------------------------------
(* C29: no table of the sample set holds more rows than its source table.  *)
C29_AtMostTotalRows ==
    \A t \in SampledTables :
       LET d == Get(tables_data, t) IN d.row_count <= d.total_rows

-----------------------------------------------------------------------------
(* C30: in every document of the sample set row_count is the number of     *)
(* rows in data, and sampled is TRUE exactly when total_rows exceeds       *)
(* row_count, which is exactly when a row of the source table is not in    *)
(* data.                                                                   *)
RowsLeftOut(t) ==
    \E rid \in RowIds(t) : ~BagIn(rid, Get(tables_data, t).data)

C30_SampledMeansTruncated ==
    \A t \in SampledTables :
       LET d == Get(tables_data, t) IN
       /\ d.row_count = Rows(d)
       /\ d.sampled <=> d.total_rows > d.row_count
       /\ d.sampled <=> RowsLeftOut(t)


====
